---- MODULE Spec2Model ----
(***************************************************************************)
(* Model of the Cloaked agent program (programs/cloaked/src/lib.rs): one   *)
(* CloakedAgentState record, its vault, the clock sysvar and the           *)
(* instruction handlers of the program module.                             *)
(*                                                                         *)
(* Every instruction is one atomic step.  A handler is an operator that    *)
(* runs the handler's statements in order on an in-memory copy of the      *)
(* account and on the vault's lamports and returns the outcome; Commit     *)
(* writes the copy back only when the handler returned Ok, as the program  *)
(* entry does.                                                             *)
(*                                                                         *)
(* u64 values are modelled with a reduced width (U64_MAX); the fee         *)
(* constants keep their source values.                                     *)
(***************************************************************************)
EXTENDS Integers, Sequences, FiniteSets, TLC

\* ------------------------------------------------------------ constants

PRIVATE_OPERATION_FEE == 50000

SPEND_FEE_REIMBURSEMENT == 10000

SECONDS_PER_DAY == 86400

WITNESS_HEADER_SIZE == 12

COMMITMENT_SIZE == 32

MIN_WITNESS_SIZE == WITNESS_HEADER_SIZE + COMMITMENT_SIZE

\* Largest value of the reduced-width unsigned integer standing for u64.
U64_MAX == 262143

\* Number of instructions (and clock changes) in a run.
MaxSteps == 5

ZK_VERIFIER_PROGRAM_ID == "zk_verifier"

\* ------------------------------------------------------------ input sets

\* Option<T>: None, or Some(v) written as the one-element sequence <<v>>.
None == <<>>

Some(v) == <<v>>

\* A 32-byte commitment with every byte b, and one whose last byte differs.
Bytes32(b) == [i \in 1..COMMITMENT_SIZE |-> b]

ZERO_COMMITMENT == Bytes32(0)

COMMITMENT_A == Bytes32(1)

COMMITMENT_B == [i \in 1..COMMITMENT_SIZE |-> IF i = COMMITMENT_SIZE THEN 2 ELSE 1]

\* A commitment whose only non-zero byte is the last.
COMMITMENT_LOW == [i \in 1..COMMITMENT_SIZE |-> IF i = COMMITMENT_SIZE THEN 1 ELSE 0]

\* Witness bytes: the 12-byte header, then public inputs.
Header == [i \in 1..WITNESS_HEADER_SIZE |-> 7]

Witness(c) == Header \o c

ShortWitness == SubSeq(Witness(COMMITMENT_A), 1, MIN_WITNESS_SIZE - 1)

LongWitness == Witness(COMMITMENT_A) \o Bytes32(9)

\* Credentials of a private instruction: the verifier program passed, the
\* verdict the verifier program gives on proof || witness, and the witness.
Cred(verifier, proof, witness) ==
    [verifier |-> verifier, proof |-> proof, witness |-> witness]

Credentials ==
    { Cred(ZK_VERIFIER_PROGRAM_ID, "accepted", Witness(COMMITMENT_A)),
      Cred(ZK_VERIFIER_PROGRAM_ID, "rejected", Witness(COMMITMENT_A)),
      Cred(ZK_VERIFIER_PROGRAM_ID, "accepted", Witness(COMMITMENT_B)),
      Cred(ZK_VERIFIER_PROGRAM_ID, "accepted", Witness(ZERO_COMMITMENT)),
      Cred(ZK_VERIFIER_PROGRAM_ID, "accepted", ShortWitness),
      Cred(ZK_VERIFIER_PROGRAM_ID, "accepted", LongWitness),
      Cred("other_program", "accepted", Witness(COMMITMENT_A)) }

\* Signing keys; the account address is derived from the delegate key, so the
\* one account modelled has the delegate "agent".
Delegate == "agent"

Owners == {"alice"}

Signers == {"alice", "bob", "agent"}

\* Accounts that can receive lamports from the vault; "relayer" is also the
\* fee payer of a spend.
Recipients == {"bob", "vault"}

\* Constraint tuples <<max_per_tx, daily_limit, total_limit, expires_at>>.
Constraints ==
    { <<0, 0, 0, 0>>, <<50000, 50000, 90000, 86400>>, <<0, 50000, 0, -5>>,
      <<0, 0, 90000, 0>> }

\* Partial updates <<max_per_tx, daily_limit, total_limit, expires_at>>.
Updates ==
    { <<None, None, None, None>>, <<None, Some(30000), None, None>>,
      <<None, None, Some(30000), None>>, <<Some(0), Some(0), Some(0), Some(0)>>,
      <<Some(50000), None, None, Some(86400)>>,
      <<None, Some(50000), Some(90000), None>> }

SpendAmounts == {0, 40000, 50000, U64_MAX - 10000, U64_MAX}

DepositAmounts == {50000, U64_MAX}

WithdrawAmounts == {0, 40000, U64_MAX}

\* Values of Clock::unix_timestamp.
Times == {100, 86400, 259300}

\* The credential that opens the private account created with COMMITMENT_A.
GoodCred == Cred(ZK_VERIFIER_PROGRAM_ID, "accepted", Witness(COMMITMENT_A))

\* The calls of each instruction: every credential with one payload, every
\* payload with the good credential, and some calls in which the system
\* program rejects the fault-th transfer (fault 0: none).
SpendCalls ==
    { [delegate |-> "agent", amount |-> a, destination |-> "bob", fault |-> 0] :
          a \in SpendAmounts }
    \cup { [delegate |-> "agent", amount |-> 40000, destination |-> "vault", fault |-> 0],
           [delegate |-> "alice", amount |-> 40000, destination |-> "bob", fault |-> 0] }
    \cup { [delegate |-> "agent", amount |-> 40000, destination |-> "bob", fault |-> f] :
              f \in {1, 2} }

WithdrawCalls ==
    { [owner |-> "alice", amount |-> a, destination |-> "bob", fault |-> 0] :
          a \in WithdrawAmounts }
    \cup { [owner |-> "alice", amount |-> 40000, destination |-> "vault", fault |-> 0],
           [owner |-> "bob", amount |-> 40000, destination |-> "bob", fault |-> 0],
           [owner |-> "alice", amount |-> 40000, destination |-> "bob", fault |-> 1] }

FeeCalls ==
    { [cred |-> cr, fee_recipient |-> "bob", fault |-> 0] : cr \in Credentials }
    \cup { [cred |-> GoodCred, fee_recipient |-> "vault", fault |-> 0],
           [cred |-> GoodCred, fee_recipient |-> "bob", fault |-> 1] }

UpdatePrivateCalls ==
    { [cred |-> cr, fee_recipient |-> "bob", upd |-> <<None, Some(30000), None, None>>] :
          cr \in Credentials }
    \cup { [cred |-> GoodCred, fee_recipient |-> "bob", upd |-> u] : u \in Updates }

ClosePrivateCalls ==
    { [cred |-> cr, destination |-> "bob", fee_recipient |-> "bob", fault |-> 0] :
          cr \in Credentials }
    \cup { [cred |-> GoodCred, destination |-> d, fee_recipient |-> r, fault |-> 0] :
              d \in Recipients, r \in Recipients }
    \cup { [cred |-> GoodCred, destination |-> "bob", fee_recipient |-> "bob",
            fault |-> 2] }

WithdrawPrivateCalls ==
    { [cred |-> cr, amount |-> 40000, destination |-> "bob", fee_recipient |-> "bob",
       fault |-> 0] : cr \in Credentials }
    \cup { [cred |-> GoodCred, amount |-> a, destination |-> "bob",
            fee_recipient |-> "relayer", fault |-> 0] : a \in WithdrawAmounts }
    \cup { [cred |-> GoodCred, amount |-> 40000, destination |-> "vault",
            fee_recipient |-> "vault", fault |-> 0] }
    \cup { [cred |-> GoodCred, amount |-> 40000, destination |-> "bob",
            fee_recipient |-> "bob", fault |-> 2] }

\* ------------------------------------------------------------ state

VARIABLES
    exists,        \* the CloakedAgentState account is initialized
    agent_state,   \* its data
    vault,         \* lamports of the vault PDA
    now,           \* Clock::unix_timestamp
    last,          \* the last instruction: its arguments and outcome
    steps,
    batch          \* instructions submitted together: the state they were
                   \* submitted in and those executed so far, in order

vars == <<exists, agent_state, vault, now, last, steps, batch>>

ZeroState ==
    [ owner |-> "None", owner_commitment |-> ZERO_COMMITMENT, delegate |-> "None",
      max_per_tx |-> 0, daily_limit |-> 0, total_limit |-> 0, expires_at |-> 0,
      frozen |-> FALSE, total_spent |-> 0, daily_spent |-> 0, last_day |-> 0,
      created_at |-> 0 ]

NoCall ==
    [ op |-> "none", err |-> "Ok", signer |-> "None", amount |-> 0,
      commitment |-> <<>>, constraints |-> <<>>,
      verifier |-> "None", proof |-> "None", witness |-> <<>>,
      destination |-> "None", fee_recipient |-> "None",
      fault |-> 0, cpi |-> FALSE, issued |-> 0, log |-> <<>>, closed_to |-> "None" ]

\* No instructions are in flight.
NoBatch == [ init |-> [exists |-> FALSE, st |-> ZeroState, vault |-> 0], done |-> <<>> ]

\* ------------------------------------------------------------ helpers

\* Mutant of checked_add: the sum wraps.
wrapping_add(a, b) == Some((a + b) % (U64_MAX + 1))

\* u64::checked_add: None on overflow.
checked_add(a, b) == IF a + b > U64_MAX THEN None ELSE Some(a + b)

\* u64::checked_sub: None on underflow.
checked_sub(a, b) == IF a < b THEN None ELSE Some(a - b)

\* i64 division truncates toward zero.
i64_div(a, b) == IF a >= 0 THEN a \div b ELSE -((-a) \div b)

is_private(st) == st.owner = "None"

\* The running instruction: the in-memory account, the vault's lamports, the
\* transfers done so far, and the first error.
Start(st, v, fault) ==
    [ err |-> "Ok", st |-> st, vault |-> v, log |-> <<>>, cpi |-> FALSE,
      closed_to |-> "None", fault |-> fault ]

\* require!(cond, code) and the ? operator: the first error ends the handler.
Require(c, cond, code) == IF c.err = "Ok" /\ ~cond THEN [c EXCEPT !.err = code] ELSE c

\* system_instruction::transfer out of the vault, signed with the vault seeds.
Transfer(c, to, amount) ==
    IF c.err # "Ok" THEN c
    ELSE IF c.fault = Len(c.log) + 1 \/ c.vault < amount
         THEN [c EXCEPT !.err = "TransferFailed"]
         ELSE [c EXCEPT !.vault = IF to = "vault" THEN c.vault ELSE c.vault - amount,
                        !.log = Append(c.log, [to |-> to, amount |-> amount])]

\* ------------------------------------------------------------ handlers

init_state(owner, commitment, cs, t) ==
    [ owner |-> owner, owner_commitment |-> commitment, delegate |-> Delegate,
      max_per_tx |-> cs[1], daily_limit |-> cs[2], total_limit |-> cs[3],
      expires_at |-> cs[4], frozen |-> FALSE, total_spent |-> 0, daily_spent |-> 0,
      last_day |-> i64_div(t, SECONDS_PER_DAY), created_at |-> t ]

\* Mutant of InitConstraint: init_if_needed.
InitIfNeeded(ex) == TRUE

\* #[account(init)]: the account must not exist yet.
InitConstraint(ex) == ~ex

\* Account<CloakedAgentState>: the account must be initialized.
AccountConstraint(ex) == ex

create_cloaked_agent(c, owner, cs, t) ==
    IF c.err # "Ok" THEN c ELSE [c EXCEPT !.st = init_state(owner, ZERO_COMMITMENT, cs, t)]

\* Mutant of create_cloaked_agent_private: only the first byte of the
\* commitment is required to be non-zero.
create_cloaked_agent_private_first_byte(c, owner_commitment, cs, t) ==
    LET c1 == Require(c, owner_commitment[1] # 0, "InvalidCommitment")
    IN  IF c1.err # "Ok" THEN c1
        ELSE [c1 EXCEPT !.st = init_state("None", owner_commitment, cs, t)]

create_cloaked_agent_private(c, owner_commitment, cs, t) ==
    LET c1 == Require(c, owner_commitment # ZERO_COMMITMENT, "InvalidCommitment")
    IN  IF c1.err # "Ok" THEN c1
        ELSE [c1 EXCEPT !.st = init_state("None", owner_commitment, cs, t)]

\* Mutant of deposit: a deposit clears the daily counter.
deposit_resets_daily(c, amount) ==
    IF c.err # "Ok" THEN c
    ELSE IF c.fault = 1 \/ checked_add(c.vault, amount) = None
         THEN [c EXCEPT !.err = "TransferFailed"]
         ELSE [c EXCEPT !.vault = c.vault + amount, !.st.daily_spent = 0]

\* The depositor's transfer into the vault; lamports are a u64.
deposit(c, amount) ==
    IF c.err # "Ok" THEN c
    ELSE IF c.fault = 1 \/ checked_add(c.vault, amount) = None
         THEN [c EXCEPT !.err = "TransferFailed"]
         ELSE [c EXCEPT !.vault = c.vault + amount]

\* Mutant of reset_daily: any other day than last_day counts as a new day.
reset_daily_other_day(st, current_day) ==
    IF current_day # st.last_day
    THEN [st EXCEPT !.daily_spent = 0, !.last_day = current_day]
    ELSE st

\* Mutant of reset_daily: a new day clears both counters.
reset_daily_both(st, current_day) ==
    IF current_day > st.last_day
    THEN [st EXCEPT !.daily_spent = 0, !.total_spent = 0, !.last_day = current_day]
    ELSE st

\* Mutant of reset_daily: only the day after last_day counts as a new day.
reset_daily_next_day_only(st, current_day) ==
    IF current_day = st.last_day + 1
    THEN [st EXCEPT !.daily_spent = 0, !.last_day = current_day]
    ELSE st

\* "Reset daily if new day"
reset_daily(st, current_day) ==
    IF current_day > st.last_day
    THEN [st EXCEPT !.daily_spent = 0, !.last_day = current_day]
    ELSE st

\* Mutant of check_daily: the amount is left out of the comparison.
check_daily_stale(c, amount) ==
    Require(c, c.st.daily_limit > 0 => c.st.daily_spent <= c.st.daily_limit,
            "ExceedsDailyLimit")

\* "Check daily limit (0 = unlimited)"
check_daily(c, amount) ==
    IF c.err = "Ok" /\ c.st.daily_limit > 0
    THEN LET sum == checked_add(c.st.daily_spent, amount)
         IN  IF sum = None THEN [c EXCEPT !.err = "Overflow"]
             ELSE Require(c, sum[1] <= c.st.daily_limit, "ExceedsDailyLimit")
    ELSE c

\* Mutant of check_total: strict bound on the counter, the amount left out.
check_total_stale(c, amount) ==
    Require(c, c.st.total_limit > 0 => c.st.total_spent < c.st.total_limit,
            "ExceedsTotalLimit")

\* "Check total limit (0 = unlimited)"
check_total(c, amount) ==
    IF c.err = "Ok" /\ c.st.total_limit > 0
    THEN LET sum == checked_add(c.st.total_spent, amount)
         IN  IF sum = None THEN [c EXCEPT !.err = "Overflow"]
             ELSE Require(c, sum[1] <= c.st.total_limit, "ExceedsTotalLimit")
    ELSE c

\* Mutant of check_balance: the vault is compared with the amount alone.
check_balance_no_fee(c, amount, fee, code) == Require(c, c.vault >= amount, code)

\* "Total required: amount + fee reimbursement" and the balance check.
check_balance(c, amount, fee, code) ==
    IF c.err # "Ok" THEN c
    ELSE LET total_required == checked_add(amount, fee)
         IN  IF total_required = None THEN [c EXCEPT !.err = "Overflow"]
             ELSE Require(c, c.vault >= total_required[1], code)

\* Mutant of update_tracking: the daily counter is kept only while a daily
\* limit is set.
update_tracking_limited_only(c, amount) ==
    IF c.err # "Ok" THEN c
    ELSE LET d == IF c.st.daily_limit = 0 THEN Some(c.st.daily_spent)
                  ELSE checked_add(c.st.daily_spent, amount)
             t == checked_add(c.st.total_spent, amount)
         IN  IF d = None \/ t = None THEN [c EXCEPT !.err = "Overflow"]
             ELSE [c EXCEPT !.st.daily_spent = d[1], !.st.total_spent = t[1]]

\* Mutant of update_tracking: the fee reimbursement is counted as spending.
update_tracking_with_fee(c, amount) ==
    IF c.err # "Ok" THEN c
    ELSE LET d == checked_add(c.st.daily_spent, amount + SPEND_FEE_REIMBURSEMENT)
             t == checked_add(c.st.total_spent, amount + SPEND_FEE_REIMBURSEMENT)
         IN  IF d = None \/ t = None THEN [c EXCEPT !.err = "Overflow"]
             ELSE [c EXCEPT !.st.daily_spent = d[1], !.st.total_spent = t[1]]

\* Mutant of update_tracking: only the daily counter is advanced.
update_tracking_daily_only(c, amount) ==
    IF c.err # "Ok" THEN c
    ELSE LET d == checked_add(c.st.daily_spent, amount)
         IN  IF d = None THEN [c EXCEPT !.err = "Overflow"]
             ELSE [c EXCEPT !.st.daily_spent = d[1]]

\* "Update tracking before transfer"
update_tracking(c, amount) ==
    IF c.err # "Ok" THEN c
    ELSE LET d == checked_add(c.st.daily_spent, amount)
             t == checked_add(c.st.total_spent, amount)
         IN  IF d = None THEN [c EXCEPT !.err = "Overflow"]
             ELSE IF t = None
                  THEN [c EXCEPT !.st.daily_spent = d[1], !.err = "Overflow"]
                  ELSE [c EXCEPT !.st.daily_spent = d[1], !.st.total_spent = t[1]]

\* Mutant of spend: the expiry is checked before frozen.
spend_expiry_first(c, t, amount, destination, fee_payer) ==
    LET c1 == Require(c, c.st.expires_at > 0 => t < c.st.expires_at, "AgentExpired")
        c2 == Require(c1, ~c1.st.frozen, "AgentFrozen")
        c3 == Require(c2, c2.st.max_per_tx > 0 => amount <= c2.st.max_per_tx,
                      "ExceedsPerTxLimit")
        c4 == IF c3.err = "Ok"
              THEN [c3 EXCEPT !.st = reset_daily(c3.st, i64_div(t, SECONDS_PER_DAY))]
              ELSE c3
        c5 == check_daily(c4, amount)
        c6 == check_total(c5, amount)
        c7 == check_balance(c6, amount, SPEND_FEE_REIMBURSEMENT, "InsufficientBalance")
        c8 == update_tracking(c7, amount)
        c9 == Transfer(c8, destination, amount)
    IN  Transfer(c9, fee_payer, SPEND_FEE_REIMBURSEMENT)

spend(c, t, amount, destination, fee_payer) ==
    LET c1 == Require(c, ~c.st.frozen, "AgentFrozen")
        c2 == Require(c1, c1.st.expires_at > 0 => t < c1.st.expires_at, "AgentExpired")
        c3 == Require(c2, c2.st.max_per_tx > 0 => amount <= c2.st.max_per_tx,
                      "ExceedsPerTxLimit")
        c4 == IF c3.err = "Ok"
              THEN [c3 EXCEPT !.st = reset_daily(c3.st, i64_div(t, SECONDS_PER_DAY))]
              ELSE c3
        c5 == check_daily(c4, amount)
        c6 == check_total(c5, amount)
        c7 == check_balance(c6, amount, SPEND_FEE_REIMBURSEMENT, "InsufficientBalance")
        c8 == update_tracking(c7, amount)
        c9 == Transfer(c8, destination, amount)
    IN  Transfer(c9, fee_payer, SPEND_FEE_REIMBURSEMENT)

\* Direct-mode gate: standard mode, then the signer is the recorded owner.
require_owner(c, owner) ==
    Require(Require(c, ~is_private(c.st), "IsPrivateMode"),
            c.st.owner = owner, "NotOwner")

\* Mutant of withdraw: a frozen account cannot be withdrawn from.
withdraw_unless_frozen(c, owner, amount, destination) ==
    LET c1 == Require(require_owner(c, owner), ~c.st.frozen, "AgentFrozen")
        c2 == Require(c1, c1.vault >= amount, "InsufficientBalance")
    IN  Transfer(c2, destination, amount)

withdraw(c, owner, amount, destination) ==
    LET c1 == require_owner(c, owner)
        c2 == Require(c1, c1.vault >= amount, "InsufficientBalance")
    IN  Transfer(c2, destination, amount)

freeze(c, owner) ==
    LET c1 == require_owner(c, owner)
    IN  IF c1.err = "Ok" THEN [c1 EXCEPT !.st.frozen = TRUE] ELSE c1

unfreeze(c, owner) ==
    LET c1 == require_owner(c, owner)
    IN  IF c1.err = "Ok" THEN [c1 EXCEPT !.st.frozen = FALSE] ELSE c1

\* Mutant of invoke_verifier: the result of the CPI is dropped.
invoke_verifier_unchecked(c, proof_bytes, witness_bytes) ==
    IF c.err # "Ok" THEN c ELSE [c EXCEPT !.cpi = TRUE]

\* The CPI to the verifier program: it fails the instruction unless the
\* verifier accepts proof || witness.
invoke_verifier(c, proof_bytes, witness_bytes) ==
    IF c.err # "Ok" THEN c
    ELSE [c EXCEPT !.cpi = TRUE,
                   !.err = IF proof_bytes = "accepted" THEN "Ok" ELSE "ProofRejected"]

\* Mutant of verify_zk_proof: the last byte of the commitment is not compared.
verify_zk_proof_short_compare(c, verifier_program, proof_bytes, witness_bytes, expected_commitment) ==
    LET c1 == Require(c, verifier_program = ZK_VERIFIER_PROGRAM_ID,
                      "InvalidVerifierProgram")
        c2 == Require(c1, Len(witness_bytes) >= MIN_WITNESS_SIZE, "InvalidProof")
        c3 == Require(c2, SubSeq(witness_bytes, WITNESS_HEADER_SIZE + 1,
                                 MIN_WITNESS_SIZE - 1)
                              = SubSeq(expected_commitment, 1, COMMITMENT_SIZE - 1),
                      "CommitmentMismatch")
    IN  invoke_verifier(c3, proof_bytes, witness_bytes)

verify_zk_proof(c, verifier_program, proof_bytes, witness_bytes, expected_commitment) ==
    LET c1 == Require(c, verifier_program = ZK_VERIFIER_PROGRAM_ID,
                      "InvalidVerifierProgram")
        c2 == Require(c1, Len(witness_bytes) >= MIN_WITNESS_SIZE, "InvalidProof")
        c3 == Require(c2, SubSeq(witness_bytes, WITNESS_HEADER_SIZE + 1, MIN_WITNESS_SIZE)
                              = expected_commitment, "CommitmentMismatch")
    IN  invoke_verifier(c3, proof_bytes, witness_bytes)

\* Mutant of require_proof: the mode check is missing.
require_proof_any_mode(c, cred) ==
    verify_zk_proof(c, cred.verifier, cred.proof, cred.witness, c.st.owner_commitment)

\* Private-mode gate: private mode, then the proof.
require_proof(c, cred) ==
    verify_zk_proof(Require(c, is_private(c.st), "NotPrivateMode"),
                    cred.verifier, cred.proof, cred.witness, c.st.owner_commitment)

\* Mutant of pay_fee: the fee transfer is attempted without the balance
\* check.
pay_fee_unchecked(c, fee_recipient) ==
    Transfer(c, fee_recipient, PRIVATE_OPERATION_FEE)

\* "Check vault has enough for fee", then "Transfer fee to fee_recipient".
pay_fee(c, fee_recipient) ==
    Transfer(Require(c, c.vault >= PRIVATE_OPERATION_FEE, "InsufficientBalanceForFee"),
             fee_recipient, PRIVATE_OPERATION_FEE)

\* Mutant of freeze_private: the fee check comes before the proof.
freeze_private_fee_first(c, cred, fee_recipient) ==
    LET c0 == Require(Require(c, is_private(c.st), "NotPrivateMode"),
                      c.vault >= PRIVATE_OPERATION_FEE, "InsufficientBalanceForFee")
        c1 == pay_fee(require_proof(c0, cred), fee_recipient)
    IN  IF c1.err = "Ok" THEN [c1 EXCEPT !.st.frozen = TRUE] ELSE c1

freeze_private(c, cred, fee_recipient) ==
    LET c1 == pay_fee(require_proof(c, cred), fee_recipient)
    IN  IF c1.err = "Ok" THEN [c1 EXCEPT !.st.frozen = TRUE] ELSE c1

\* Mutant of unfreeze_private: no fee is paid.
unfreeze_private_free(c, cred, fee_recipient) ==
    LET c1 == require_proof(c, cred)
    IN  IF c1.err = "Ok" THEN [c1 EXCEPT !.st.frozen = FALSE] ELSE c1

unfreeze_private(c, cred, fee_recipient) ==
    LET c1 == pay_fee(require_proof(c, cred), fee_recipient)
    IN  IF c1.err = "Ok" THEN [c1 EXCEPT !.st.frozen = FALSE] ELSE c1

\* Mutant of set_constraints: a field that is not supplied is set to 0.
set_constraints_or_zero(st, upd) ==
    [st EXCEPT !.max_per_tx = IF upd[1] = None THEN 0 ELSE upd[1][1],
               !.daily_limit = IF upd[2] = None THEN 0 ELSE upd[2][1],
               !.total_limit = IF upd[3] = None THEN 0 ELSE upd[3][1],
               !.expires_at = IF upd[4] = None THEN 0 ELSE upd[4][1]]

\* if let Some(v) = field { agent_state.field = v }
set_constraints(st, upd) ==
    [st EXCEPT !.max_per_tx = IF upd[1] = None THEN @ ELSE upd[1][1],
               !.daily_limit = IF upd[2] = None THEN @ ELSE upd[2][1],
               !.total_limit = IF upd[3] = None THEN @ ELSE upd[3][1],
               !.expires_at = IF upd[4] = None THEN @ ELSE upd[4][1]]

update_constraints(c, owner, upd) ==
    LET c1 == require_owner(c, owner)
    IN  IF c1.err = "Ok" THEN [c1 EXCEPT !.st = set_constraints(c1.st, upd)] ELSE c1

update_constraints_private(c, cred, fee_recipient, upd) ==
    LET c1 == pay_fee(require_proof(c, cred), fee_recipient)
    IN  IF c1.err = "Ok" THEN [c1 EXCEPT !.st = set_constraints(c1.st, upd)] ELSE c1

\* close = <target>: on Ok the account is closed and its lamports go to target.
close_account(c, target) ==
    IF c.err = "Ok" THEN [c EXCEPT !.closed_to = target] ELSE c

\* Mutant of close_cloaked_agent: the signer is not compared with the owner.
close_cloaked_agent_any_signer(c, owner) ==
    LET c1 == Require(c, ~is_private(c.st), "IsPrivateMode")
        vault_balance == c1.vault
        c2 == IF vault_balance > 0 THEN Transfer(c1, owner, vault_balance) ELSE c1
    IN  close_account(c2, owner)

close_cloaked_agent(c, owner) ==
    LET c1 == require_owner(c, owner)
        vault_balance == c1.vault
        c2 == IF vault_balance > 0 THEN Transfer(c1, owner, vault_balance) ELSE c1
    IN  close_account(c2, owner)

close_cloaked_agent_private(c, cred, destination, fee_recipient) ==
    LET c1 == require_proof(c, cred)
        vault_balance == c1.vault
        c2 == Require(c1, vault_balance >= PRIVATE_OPERATION_FEE,
                      "InsufficientBalanceForFee")
        c3 == Transfer(c2, fee_recipient, PRIVATE_OPERATION_FEE)
        remaining_balance == checked_sub(vault_balance, PRIVATE_OPERATION_FEE)
        c4 == IF c3.err # "Ok" THEN c3
              ELSE IF remaining_balance = None THEN [c3 EXCEPT !.err = "Overflow"]
              ELSE IF remaining_balance[1] > 0
                   THEN Transfer(c3, destination, remaining_balance[1])
                   ELSE c3
    IN  close_account(c4, fee_recipient)

\* Mutant of withdraw_private: the principal is transferred before the fee.
withdraw_private_principal_first(c, cred, amount, destination, fee_recipient) ==
    LET c1 == require_proof(c, cred)
        c2 == check_balance(c1, amount, PRIVATE_OPERATION_FEE, "InsufficientBalance")
        c3 == Transfer(c2, destination, amount)
    IN  Transfer(c3, fee_recipient, PRIVATE_OPERATION_FEE)

withdraw_private(c, cred, amount, destination, fee_recipient) ==
    LET c1 == require_proof(c, cred)
        c2 == check_balance(c1, amount, PRIVATE_OPERATION_FEE, "InsufficientBalance")
        c3 == Transfer(c2, fee_recipient, PRIVATE_OPERATION_FEE)
    IN  Transfer(c3, destination, amount)

\* ------------------------------------------------------------ actions

\* Mutant of Commit: the account and the vault are written back whatever the
\* handler returned.
CommitAlways(call, c) ==
    /\ steps < MaxSteps
    /\ steps' = steps + 1
    /\ now' = now
    /\ UNCHANGED batch
    /\ exists' = IF c.err = "Ok" THEN c.closed_to = "None" ELSE exists
    /\ agent_state' = IF c.err = "Ok" /\ c.closed_to # "None" THEN ZeroState ELSE c.st
    /\ vault' = c.vault
    /\ last' = [call EXCEPT !.err = c.err, !.cpi = c.cpi, !.log = c.log,
                            !.issued = Len(c.log), !.closed_to = c.closed_to]

\* The program entry: the account is written back, and the transfers stand,
\* only when the handler returned Ok; a failed instruction changes nothing.
Commit(call, c) ==
    /\ steps < MaxSteps
    /\ steps' = steps + 1
    /\ now' = now
    /\ UNCHANGED batch
    /\ IF c.err = "Ok"
       THEN /\ exists' = (c.closed_to = "None")
            /\ agent_state' = IF c.closed_to = "None" THEN c.st ELSE ZeroState
            /\ vault' = c.vault
            /\ last' = [call EXCEPT !.err = "Ok", !.cpi = c.cpi, !.log = c.log,
                                    !.issued = Len(c.log),
                                    !.closed_to = c.closed_to]
       ELSE /\ UNCHANGED <<exists, agent_state, vault>>
            /\ last' = [call EXCEPT !.err = c.err, !.cpi = c.cpi,
                                    !.issued = Len(c.log)]

\* Account validation before the handler runs.
Enter(constraint, code, fault) ==
    Require(Start(agent_state, vault, fault), constraint, code)

Existing(fault) == Enter(AccountConstraint(exists), "AccountNotInitialized", fault)

Call(op) == [NoCall EXCEPT !.op = op]

PrivateCall(op, cred) ==
    [NoCall EXCEPT !.op = op, !.verifier = cred.verifier, !.proof = cred.proof,
                   !.witness = cred.witness]

CreateCloakedAgent ==
    \E owner \in Owners, cs \in Constraints :
        Commit([Call("create_cloaked_agent") EXCEPT !.signer = owner, !.constraints = cs],
               create_cloaked_agent(Enter(InitConstraint(exists), "AccountInUse", 0),
                                    owner, cs, now))

CreateCloakedAgentPrivate ==
    \E oc \in {ZERO_COMMITMENT, COMMITMENT_A, COMMITMENT_LOW}, cs \in Constraints :
        Commit([Call("create_cloaked_agent_private")
                    EXCEPT !.commitment = oc, !.constraints = cs],
               create_cloaked_agent_private(
                   Enter(InitConstraint(exists), "AccountInUse", 0), oc, cs, now))

Deposit ==
    \E amount \in DepositAmounts :
        Commit([Call("deposit") EXCEPT !.amount = amount], deposit(Existing(0), amount))

\* Mutant of SpendConstraint: the owner's key is accepted as well.
SpendConstraintOrOwner(ex, st, delegate) ==
    ex /\ (st.delegate = delegate \/ st.owner = delegate)

\* Spend accounts: the state must be the PDA of the signing delegate.
SpendConstraint(ex, st, delegate) == ex /\ st.delegate = delegate

Spend ==
    \E a \in SpendCalls :
        Commit([Call("spend") EXCEPT !.signer = a.delegate, !.amount = a.amount,
                                     !.destination = a.destination,
                                     !.fee_recipient = "relayer", !.fault = a.fault],
               spend(Enter(SpendConstraint(exists, agent_state, a.delegate),
                           "ConstraintSeeds", a.fault),
                     now, a.amount, a.destination, "relayer"))

Withdraw ==
    \E a \in WithdrawCalls :
        Commit([Call("withdraw") EXCEPT !.signer = a.owner, !.amount = a.amount,
                                        !.fault = a.fault],
               withdraw(Existing(a.fault), a.owner, a.amount, a.destination))

Freeze ==
    \E owner \in Owners \cup {"bob"} :
        Commit([Call("freeze") EXCEPT !.signer = owner], freeze(Existing(0), owner))

Unfreeze ==
    \E owner \in Owners \cup {"bob"} :
        Commit([Call("unfreeze") EXCEPT !.signer = owner], unfreeze(Existing(0), owner))

FreezePrivate ==
    \E a \in FeeCalls :
        Commit([PrivateCall("freeze_private", a.cred)
                    EXCEPT !.fee_recipient = a.fee_recipient, !.fault = a.fault],
               freeze_private(Existing(a.fault), a.cred, a.fee_recipient))

UnfreezePrivate ==
    \E a \in FeeCalls :
        Commit([PrivateCall("unfreeze_private", a.cred)
                    EXCEPT !.fee_recipient = a.fee_recipient, !.fault = a.fault],
               unfreeze_private(Existing(a.fault), a.cred, a.fee_recipient))

UpdateConstraints ==
    \E owner \in Owners \cup {"bob"}, upd \in Updates :
        Commit([Call("update_constraints") EXCEPT !.signer = owner, !.constraints = upd],
               update_constraints(Existing(0), owner, upd))

UpdateConstraintsPrivate ==
    \E a \in UpdatePrivateCalls :
        Commit([PrivateCall("update_constraints_private", a.cred)
                    EXCEPT !.constraints = a.upd],
               update_constraints_private(Existing(0), a.cred, a.fee_recipient, a.upd))

CloseCloakedAgent ==
    \E owner \in Owners \cup {"bob"}, fault \in {0, 1} :
        Commit([Call("close_cloaked_agent") EXCEPT !.signer = owner, !.fault = fault],
               close_cloaked_agent(Existing(fault), owner))

CloseCloakedAgentPrivate ==
    \E a \in ClosePrivateCalls :
        Commit([PrivateCall("close_cloaked_agent_private", a.cred)
                    EXCEPT !.destination = a.destination,
                           !.fee_recipient = a.fee_recipient, !.fault = a.fault],
               close_cloaked_agent_private(Existing(a.fault), a.cred, a.destination,
                                           a.fee_recipient))

WithdrawPrivate ==
    \E a \in WithdrawPrivateCalls :
        Commit([PrivateCall("withdraw_private", a.cred)
                    EXCEPT !.amount = a.amount, !.destination = a.destination,
                           !.fee_recipient = a.fee_recipient, !.fault = a.fault],
               withdraw_private(Existing(a.fault), a.cred, a.amount, a.destination,
                                a.fee_recipient))

\* The clock sysvar takes another value.
Tick ==
    /\ steps < MaxSteps
    /\ steps' = steps + 1
    /\ \E t \in Times \ {now} : now' = t
    /\ last' = Call("tick")
    /\ UNCHANGED <<exists, agent_state, vault, batch>>

Init ==
    /\ exists = FALSE
    /\ agent_state = ZeroState
    /\ vault = 0
    /\ now = 100
    /\ last = NoCall
    /\ steps = 0
    /\ batch = NoBatch

Next ==
    \/ CreateCloakedAgent
    \/ CreateCloakedAgentPrivate
    \/ Deposit
    \/ Spend
    \/ Withdraw
    \/ Freeze
    \/ Unfreeze
    \/ FreezePrivate
    \/ UnfreezePrivate
    \/ UpdateConstraints
    \/ UpdateConstraintsPrivate
    \/ CloseCloakedAgent
    \/ CloseCloakedAgentPrivate
    \/ WithdrawPrivate
    \/ Tick

Spec == Init /\ [][Next]_vars

\* ------------------------------------------------------------ concurrent submission

\* Instructions submitted together against the one account: three spends by
\* the delegate, a withdraw and a freeze by the owner.
Submitted ==
    << [op |-> "spend", signer |-> "agent", amount |-> 40000],
       [op |-> "spend", signer |-> "agent", amount |-> 50000],
       [op |-> "spend", signer |-> "agent", amount |-> 40000],
       [op |-> "withdraw", signer |-> "alice", amount |-> 40000],
       [op |-> "freeze", signer |-> "alice", amount |-> 0] >>

\* The account, its existence and the vault as one value.
Stored(ex, st, v) == [exists |-> ex, st |-> st, vault |-> v]

\* Mutant of Load: the handler runs on the account as it was at submission.
LoadSubmitted(current, submitted) == [current EXCEPT !.st = submitted.st]

\* The account an instruction runs on is deserialized when the instruction
\* executes, under the runtime's write lock on it.
Load(current, submitted) == current

\* Account validation and handler of one submitted instruction on s at time t.
Dispatch(o, s, t) ==
    IF o.op = "spend"
    THEN spend(Require(Start(s.st, s.vault, 0),
                       SpendConstraint(s.exists, s.st, o.signer), "ConstraintSeeds"),
               t, o.amount, "bob", "relayer")
    ELSE LET c == Require(Start(s.st, s.vault, 0), AccountConstraint(s.exists),
                          "AccountNotInitialized")
         IN  IF o.op = "withdraw" THEN withdraw(c, o.signer, o.amount, "bob")
             ELSE freeze(c, o.signer)

\* What the program entry leaves behind: the handler's account and vault on
\* Ok, s itself on an error.
WriteBack(s, c) ==
    IF c.err = "Ok"
    THEN Stored(c.closed_to = "None",
                IF c.closed_to = "None" THEN c.st ELSE ZeroState, c.vault)
    ELSE s

\* Instruction o runs on the loaded account s and is written back.
Execute(o, s) ==
    LET c == Dispatch(o, s, now)
        w == WriteBack(Stored(exists, agent_state, vault), c)
    IN  /\ exists' = w.exists
        /\ agent_state' = w.st
        /\ vault' = w.vault
        /\ last' = [Call(o.op) EXCEPT !.signer = o.signer, !.amount = o.amount,
                                      !.destination = "bob",
                                      !.fee_recipient = "relayer",
                                      !.err = c.err, !.issued = Len(c.log),
                                      !.log = IF c.err = "Ok" THEN c.log ELSE <<>>]
        /\ steps' = steps + 1
        /\ now' = now

\* The runtime executes one of the submitted instructions, in any order, one
\* at a time.
ExecuteSubmitted ==
    \E i \in DOMAIN Submitted :
        /\ \A k \in DOMAIN batch.done : batch.done[k].id # i
        /\ Execute(Submitted[i], Load(Stored(exists, agent_state, vault), batch.init))
        /\ batch' = [batch EXCEPT !.done = Append(@, [id |-> i, err |-> last'.err])]

\* States the account can be in when the instructions are submitted: created
\* on day 0 with any of the constraint tuples, unspent or after one spend of
\* 40000, the vault funded by deposits of 50000.
InitConcurrent ==
    /\ exists = TRUE
    /\ \E cs \in Constraints, spent \in {0, 40000} :
           agent_state = [init_state("alice", ZERO_COMMITMENT, cs, 100)
                             EXCEPT !.daily_spent = spent, !.total_spent = spent]
    /\ vault \in {100000, 150000}
    /\ now \in Times
    /\ last = NoCall
    /\ steps = 0
    /\ batch = [init |-> Stored(exists, agent_state, vault), done |-> <<>>]

NextConcurrent == ExecuteSubmitted

SpecConcurrent == InitConcurrent /\ [][NextConcurrent]_vars

\* ------------------------------------------------------------ spend decision

\* Number of instructions (and clock changes) in a run of spends.
SpendSteps == 6

\* <<max_per_tx, daily_limit, total_limit, expires_at>> of Scenario A.
ScenarioA == <<100, 500, 1000, 0>>

ScenarioAmounts == {1, 100, 50000, U64_MAX - 10000, U64_MAX}

\* A spend by the delegate.
SpendStep ==
    /\ steps < SpendSteps
    /\ \E amount \in ScenarioAmounts :
           Execute([op |-> "spend", signer |-> Delegate, amount |-> amount],
                   Stored(exists, agent_state, vault))
    /\ UNCHANGED batch

\* An account created on day 0 with any of the constraint tuples, frozen by
\* its owner or not, its vault funded.
InitSpend ==
    /\ exists = TRUE
    /\ \E cs \in Constraints \cup {ScenarioA}, frozen \in BOOLEAN :
           agent_state = [init_state("alice", ZERO_COMMITMENT, cs, 100)
                             EXCEPT !.frozen = frozen]
    /\ vault \in {50000, U64_MAX}
    /\ now = 100
    /\ last = NoCall
    /\ steps = 0
    /\ batch = NoBatch

NextSpend ==
    \/ SpendStep
    \/ Tick

SpecSpend == InitSpend /\ [][NextSpend]_vars

\* ------------------------------------------------------------ signed clock

\* Values of Clock::unix_timestamp, an i64, on both sides of 0.
SignedTimes == {-86401, -86400, -100, 100}

\* The clock sysvar takes another signed value.
TickSigned ==
    /\ steps < MaxSteps
    /\ steps' = steps + 1
    /\ \E t \in SignedTimes \ {now} : now' = t
    /\ last' = Call("tick")
    /\ UNCHANGED <<exists, agent_state, vault, batch>>

InitSigned ==
    /\ exists = FALSE
    /\ agent_state = ZeroState
    /\ vault = 0
    /\ now \in SignedTimes
    /\ last = NoCall
    /\ steps = 0
    /\ batch = NoBatch

NextSigned ==
    \/ CreateCloakedAgent
    \/ CreateCloakedAgentPrivate
    \/ Deposit
    \/ Spend
    \/ TickSigned

SpecSigned == InitSigned /\ [][NextSigned]_vars

\* ------------------------------------------------------------ properties

PrivateOps ==
    { "freeze_private", "unfreeze_private", "update_constraints_private",
      "withdraw_private", "close_cloaked_agent_private" }

DirectOps ==
    { "freeze", "unfreeze", "update_constraints", "withdraw", "close_cloaked_agent" }

UpdateOps == { "update_constraints", "update_constraints_private" }

AuthErrors ==
    { "NotOwner", "IsPrivateMode", "NotPrivateMode", "InvalidVerifierProgram",
      "InvalidProof", "CommitmentMismatch", "ProofRejected" }

\* The step left the account, its existence and the vault as they were, and no
\* transfer of it stands.
NothingChanged ==
    /\ agent_state' = agent_state
    /\ exists' = exists
    /\ vault' = vault
    /\ last'.log = <<>>
    /\ last'.closed_to = "None"

WithinLimits(st) ==
    /\ st.daily_limit > 0 => st.daily_spent <= st.daily_limit
    /\ st.total_limit > 0 => st.total_spent <= st.total_limit

\* C1: right after a successful spend, daily_spent <= daily_limit when
\* daily_limit > 0 and total_spent <= total_limit when total_limit > 0.
C1_SpendWithinLimits ==
    (last.op = "spend" /\ last.err = "Ok") => WithinLimits(agent_state)

\* A successful spend that brings the daily counter exactly to a positive
\* daily limit, under a positive total limit.
C1_Witness ==
    /\ last.op = "spend" /\ last.err = "Ok" /\ last.amount > 0
    /\ agent_state.daily_limit > 0 /\ agent_state.total_limit > 0
    /\ agent_state.daily_spent = agent_state.daily_limit

\* C2 as stated: in every reachable state of an account both counters are
\* within their positive limits, also after update_constraints(_private).
C2_LimitsAlways == exists => WithinLimits(agent_state)

\* The step is a successful constraint update that sets a limit to a positive
\* value below the current counter.
LoweringUpdate ==
    /\ last'.op \in UpdateOps /\ last'.err = "Ok"
    /\ \/ /\ last'.constraints[2] # None
          /\ last'.constraints[2][1] > 0
          /\ last'.constraints[2][1] < agent_state.daily_spent
       \/ /\ last'.constraints[3] # None
          /\ last'.constraints[3][1] > 0
          /\ last'.constraints[3][1] < agent_state.total_spent

\* C2 as amended: the limits hold at creation and every step keeps them,
\* except a successful constraint update that sets a limit to a positive
\* value below the current counter.
C2_LimitsPreserved ==
    [][(WithinLimits(agent_state) /\ ~LoweringUpdate) => WithinLimits(agent_state')]_vars

\* A successful update that sets the total limit at or above a nonzero counter.
C2_Witness ==
    /\ last.op \in UpdateOps /\ last.err = "Ok"
    /\ last.constraints[3] # None /\ last.constraints[3][1] > 0
    /\ agent_state.total_spent > 0
    /\ agent_state.total_spent <= agent_state.total_limit

\* C3: daily_spent <= total_spent in every reachable state of an account.
C3_DailyAtMostTotal == exists => agent_state.daily_spent <= agent_state.total_spent

\* After a rollover and a further spend the daily counter is positive and
\* strictly below the total.
C3_Witness ==
    /\ exists /\ last.op = "spend" /\ last.err = "Ok"
    /\ 0 < agent_state.daily_spent
    /\ agent_state.daily_spent < agent_state.total_spent

\* C4: no step lowers total_spent while the account record lives.
C4_TotalSpentMonotone ==
    [][(exists /\ exists') => agent_state'.total_spent >= agent_state.total_spent]_vars

\* A spend on a later day that raised an already positive total.
C4_Witness ==
    /\ last.op = "spend" /\ last.err = "Ok" /\ last.amount > 0
    /\ agent_state.total_spent > last.amount
    /\ agent_state.daily_spent = last.amount

\* C5: a private-only instruction on a standard account fails with
\* NotPrivateMode, a standard-only instruction on a private account fails
\* with IsPrivateMode, whatever the credential, and nothing changes.
C5_WrongModeRejected ==
    [][/\ (exists /\ agent_state.owner # "None" /\ last'.op \in PrivateOps)
           => (last'.err = "NotPrivateMode" /\ NothingChanged)
       /\ (exists /\ agent_state.owner = "None" /\ last'.op \in DirectOps)
           => (last'.err = "IsPrivateMode" /\ NothingChanged)]_vars

\* freeze_private on a funded standard account with an accepted proof whose
\* witness carries the account's all-zero commitment.
C5_Witness ==
    /\ exists /\ agent_state.owner # "None"
    /\ agent_state.owner_commitment = ZERO_COMMITMENT
    /\ vault >= PRIVATE_OPERATION_FEE
    /\ last.op = "freeze_private" /\ last.verifier = ZK_VERIFIER_PROGRAM_ID
    /\ last.proof = "accepted" /\ last.witness = Witness(ZERO_COMMITMENT)
    /\ last.err = "NotPrivateMode" /\ ~agent_state.frozen

\* C6: no step changes the owner (present or absent) or the commitment of a
\* living account.
C6_ModeImmutable ==
    [][(exists /\ exists')
          => /\ agent_state'.owner = agent_state.owner
             /\ agent_state'.owner_commitment = agent_state.owner_commitment]_vars

\* A private account after a successful constraint update.
C6_Witness ==
    /\ exists /\ agent_state.owner = "None"
    /\ agent_state.owner_commitment = COMMITMENT_A
    /\ last.op = "update_constraints_private" /\ last.err = "Ok"
    /\ last.constraints = <<Some(0), Some(0), Some(0), Some(0)>>

\* The day index of a non-negative clock value.
Day(t) == t \div SECONDS_PER_DAY

\* The daily counter a spend at the current clock starts from.
EffectiveDaily == IF Day(now) > agent_state.last_day THEN 0 ELSE agent_state.daily_spent

\* The step is a spend by the delegate that passes the frozen, expiry and
\* per-transaction checks.
SpendAdmitted ==
    /\ exists /\ last'.op = "spend" /\ last'.signer = agent_state.delegate
    /\ ~agent_state.frozen
    /\ agent_state.expires_at > 0 => now < agent_state.expires_at
    /\ agent_state.max_per_tx > 0 => last'.amount <= agent_state.max_per_tx

\* ... and whose amount both limits allow.
SpendWithinLimits ==
    /\ SpendAdmitted
    /\ agent_state.daily_limit > 0
           => EffectiveDaily + last'.amount <= agent_state.daily_limit
    /\ agent_state.total_limit > 0
           => agent_state.total_spent + last'.amount <= agent_state.total_limit

\* The step is a withdraw signed by the owner of a standard account.
WithdrawAdmitted ==
    /\ exists /\ last'.op = "withdraw"
    /\ agent_state.owner # "None" /\ last'.signer = agent_state.owner

\* The step is a private instruction on a private account whose verifier
\* program, witness and proof are all accepted.
ProofAdmitted ==
    /\ exists /\ last'.op \in PrivateOps /\ agent_state.owner = "None"
    /\ last'.verifier = ZK_VERIFIER_PROGRAM_ID
    /\ Len(last'.witness) >= 44
    /\ \A i \in 1..32 : last'.witness[12 + i] = agent_state.owner_commitment[i]
    /\ last'.proof = "accepted"

\* The required total of the step's spend or withdraw exceeds the vault balance.
Underfunded ==
    /\ exists
    /\ \/ last'.op = "spend" /\ last'.amount + SPEND_FEE_REIMBURSEMENT > vault
       \/ last'.op = "withdraw" /\ last'.amount > vault
       \/ last'.op = "withdraw_private" /\ last'.amount + PRIVATE_OPERATION_FEE > vault

\* Every check that precedes the balance check of the step's instruction passes.
ReachesBalanceCheck ==
    \/ SpendWithinLimits
    \/ WithdrawAdmitted
    \/ last'.op = "withdraw_private" /\ ProofAdmitted

\* amount + fee of the step's spend or withdraw_private exceeds the u64 maximum.
RequiredOverflows ==
    \/ last'.op = "spend" /\ last'.amount + SPEND_FEE_REIMBURSEMENT > U64_MAX
    \/ last'.op = "withdraw_private" /\ last'.amount + PRIVATE_OPERATION_FEE > U64_MAX

\* C7 as stated, read for the calls that pass every check before the balance
\* check: a spend or withdraw whose required total exceeds the vault balance
\* fails with the balance error and changes nothing.
C7_UnderfundedIsBalanceError ==
    [][(Underfunded /\ ReachesBalanceCheck)
          => (last'.err = "InsufficientBalance" /\ NothingChanged)]_vars

\* C7 as amended: a spend or withdraw whose required total exceeds the vault
\* balance fails and changes nothing; when every check before the balance
\* check passes the error is InsufficientBalance, or Overflow when amount + fee
\* exceeds the u64 maximum.
C7_UnderfundedFails ==
    [][Underfunded
          => /\ last'.err # "Ok"
             /\ NothingChanged
             /\ ReachesBalanceCheck
                    => last'.err = IF RequiredOverflows THEN "Overflow"
                                   ELSE "InsufficientBalance"]_vars

\* A spend on a new day, within both limits, rejected for the balance: the
\* stored day and counters are those from before the call.
C7_Witness ==
    /\ exists /\ last.op = "spend" /\ last.err = "InsufficientBalance"
    /\ last.amount > 0 /\ vault > 0
    /\ agent_state.daily_spent > 0
    /\ Day(now) > agent_state.last_day

\* A counter or sum of the step's spend or withdraw_private exceeds the u64
\* maximum.
Overflowing ==
    /\ exists
    /\ \/ /\ last'.op = "spend"
          /\ \/ agent_state.daily_spent + last'.amount > U64_MAX
             \/ agent_state.total_spent + last'.amount > U64_MAX
             \/ last'.amount + SPEND_FEE_REIMBURSEMENT > U64_MAX
       \/ /\ last'.op = "withdraw_private"
          /\ last'.amount + PRIVATE_OPERATION_FEE > U64_MAX

\* The limit checks of the step's spend, as far as their sums are
\* representable, pass.
SpendLimitsNotExceeded ==
    /\ SpendAdmitted
    /\ (agent_state.daily_limit > 0 /\ EffectiveDaily + last'.amount <= U64_MAX)
           => EffectiveDaily + last'.amount <= agent_state.daily_limit
    /\ (agent_state.total_limit > 0 /\ agent_state.total_spent + last'.amount <= U64_MAX)
           => agent_state.total_spent + last'.amount <= agent_state.total_limit

\* C8 as stated, read for the calls that pass authorization and every limiter
\* check: when a counter or sum would exceed the u64 maximum the call aborts
\* with Overflow and changes nothing, also when the limit is 0.
C8_OverflowIsArithmeticError ==
    [][(Overflowing /\ (SpendLimitsNotExceeded \/ ProofAdmitted))
          => (last'.err = "Overflow" /\ NothingChanged)]_vars

\* C8 as amended: when a counter or sum would exceed the u64 maximum the call
\* fails and changes nothing, so nothing wraps; the error is Overflow when
\* every other check of the call passes, including the balance check where
\* amount + fee is representable.
C8_OverflowAborts ==
    [][Overflowing
          => /\ last'.err # "Ok"
             /\ NothingChanged
             /\ (/\ SpendLimitsNotExceeded \/ ProofAdmitted
                 /\ ~RequiredOverflows => ~Underfunded)
                    => last'.err = "Overflow"]_vars

\* A spend with both limits 0 and a representable, funded amount + fee that
\* aborts with Overflow: the overflow is that of a counter.
C8_Witness ==
    /\ exists /\ last.op = "spend" /\ last.err = "Overflow"
    /\ agent_state.daily_limit = 0 /\ agent_state.total_limit = 0
    /\ last.amount + SPEND_FEE_REIMBURSEMENT <= U64_MAX
    /\ vault >= last.amount + SPEND_FEE_REIMBURSEMENT
    /\ agent_state.total_spent + last.amount > U64_MAX

\* C9: a spend at a day index above last_day is checked against a daily
\* counter of 0, however many days have passed, and on success leaves
\* daily_spent = amount and last_day = the current day; so a spend of exactly
\* the daily limit succeeds after a rollover when nothing else blocks it.  At a
\* day index not above last_day nothing is reset.
C9_Rollover ==
    [][(exists /\ last'.op = "spend")
          => /\ (Day(now) > agent_state.last_day /\ last'.err = "Ok")
                    => /\ agent_state'.daily_spent = last'.amount
                       /\ agent_state'.last_day = Day(now)
             /\ (Day(now) > agent_state.last_day /\ SpendAdmitted
                   /\ agent_state.daily_limit > 0)
                    => (last'.err = "ExceedsDailyLimit"
                           <=> last'.amount > agent_state.daily_limit)
             /\ (/\ Day(now) > agent_state.last_day /\ SpendAdmitted
                 /\ agent_state.daily_limit > 0
                 /\ last'.amount = agent_state.daily_limit
                 /\ agent_state.total_limit > 0
                        => agent_state.total_spent + last'.amount
                               <= agent_state.total_limit
                 /\ agent_state.total_spent + last'.amount <= U64_MAX
                 /\ vault >= last'.amount + SPEND_FEE_REIMBURSEMENT
                 /\ last'.fault = 0)
                    => last'.err = "Ok"
             /\ (Day(now) <= agent_state.last_day /\ last'.err = "Ok")
                    => /\ agent_state'.daily_spent
                              = agent_state.daily_spent + last'.amount
                       /\ agent_state'.last_day = agent_state.last_day]_vars

\* A spend of exactly the daily limit that succeeded three days after the
\* account's creation day, the total already at the daily limit before it.
C9_Witness ==
    /\ exists /\ last.op = "spend" /\ last.err = "Ok"
    /\ agent_state.daily_limit > 0
    /\ last.amount = agent_state.daily_limit
    /\ agent_state.daily_spent = last.amount
    /\ agent_state.total_spent - last.amount >= agent_state.daily_limit
    /\ Day(agent_state.created_at) = 0
    /\ agent_state.last_day = 3

\* C10: a private instruction whose proof the verifier rejects fails with an
\* authorization error and changes neither the account, its existence, nor
\* any balance; where the verifier was invoked the error is its rejection.
C10_RejectedProofFails ==
    [][(exists /\ last'.op \in PrivateOps /\ last'.proof = "rejected")
          => /\ last'.err \in AuthErrors
             /\ NothingChanged
             /\ last'.cpi => last'.err = "ProofRejected"]_vars

\* freeze_private on a funded, unfrozen private account with the right
\* verifier program and witness, rejected by the verifier.
C10_Witness ==
    /\ exists /\ agent_state.owner = "None" /\ ~agent_state.frozen
    /\ vault >= PRIVATE_OPERATION_FEE
    /\ last.op = "freeze_private" /\ last.proof = "rejected" /\ last.cpi
    /\ last.witness = Witness(agent_state.owner_commitment)
    /\ last.err = "ProofRejected"

\* The step is close_cloaked_agent on a living standard account.
CloseDirect == exists /\ agent_state.owner # "None" /\ last'.op = "close_cloaked_agent"

\* C11: close_cloaked_agent on a standard account signed by its owner succeeds
\* (when the ledger accepts the transfer), sends the whole vault balance to the
\* owner in one transfer (none when the vault is empty), leaves the vault at
\* 0, removes the record and hands the record's lamports to the owner; signed
\* by anyone else it fails with NotOwner and changes nothing.
C11_CloseDirect ==
    [][CloseDirect
          => /\ last'.signer # agent_state.owner
                    => (last'.err = "NotOwner" /\ NothingChanged)
             /\ (last'.signer = agent_state.owner /\ last'.fault = 0)
                    => last'.err = "Ok"
             /\ last'.err = "Ok"
                    => /\ last'.signer = agent_state.owner
                       /\ last'.log = IF vault > 0
                                      THEN <<[to |-> agent_state.owner, amount |-> vault]>>
                                      ELSE <<>>
                       /\ vault' = 0
                       /\ ~exists' /\ agent_state' = ZeroState
                       /\ last'.closed_to = agent_state.owner]_vars

\* A close by the owner that swept a non-empty vault and removed the record.
C11_Witness ==
    /\ last.op = "close_cloaked_agent" /\ last.err = "Ok"
    /\ last.signer = "alice" /\ last.closed_to = "alice"
    /\ Len(last.log) = 1 /\ last.log[1].to = "alice" /\ last.log[1].amount > 0
    /\ vault = 0 /\ ~exists

\* A close by the owner of an account whose vault was already empty.
C11_WitnessEmpty ==
    /\ last.op = "close_cloaked_agent" /\ last.err = "Ok"
    /\ last.log = <<>> /\ vault = 0 /\ ~exists

\* The step is a successful close_cloaked_agent_private.
ClosePrivateOk == exists /\ last'.op = "close_cloaked_agent_private" /\ last'.err = "Ok"

\* C12: a successful close_cloaked_agent_private transfers exactly
\* PRIVATE_OPERATION_FEE to the fee recipient and exactly the rest of the
\* pre-call vault balance to the destination, leaves the vault at 0 whatever
\* the destination and the fee recipient are, removes the record and hands the
\* record's lamports to the fee recipient.
C12_ClosePrivateDrains ==
    [][ClosePrivateOk
          => /\ Len(last'.log) >= 1
             /\ last'.log[1].amount = PRIVATE_OPERATION_FEE
             /\ vault > PRIVATE_OPERATION_FEE
                    => /\ Len(last'.log) = 2
                       /\ last'.log[2].amount = vault - PRIVATE_OPERATION_FEE
             /\ vault' = 0
             /\ ~exists' /\ agent_state' = ZeroState
             /\ last'.closed_to = last'.log[1].to]_vars

\* C13: withdraw signed by the owner of a standard account succeeds whenever
\* amount <= vault balance (and the ledger accepts the transfer), whatever
\* frozen, the expiry, the three limits and the counters are; withdraw_private
\* with an admitted proof succeeds whenever amount + PRIVATE_OPERATION_FEE <=
\* vault balance.  Neither touches the account record.
C13_WithdrawBypassesLimiter ==
    [][/\ (WithdrawAdmitted /\ last'.amount <= vault /\ last'.fault = 0)
              => (last'.err = "Ok" /\ agent_state' = agent_state /\ exists')
       /\ (/\ last'.op = "withdraw_private" /\ ProofAdmitted
           /\ last'.amount + PRIVATE_OPERATION_FEE <= vault /\ last'.fault = 0)
              => (last'.err = "Ok" /\ agent_state' = agent_state /\ exists')]_vars

\* A successful withdraw from a frozen, expired account of an amount above
\* max_per_tx, the daily limit and the total limit.
C13_Witness ==
    /\ exists /\ last.op = "withdraw" /\ last.err = "Ok"
    /\ agent_state.frozen
    /\ agent_state.expires_at > 0 /\ now >= agent_state.expires_at
    /\ agent_state.max_per_tx > 0 /\ last.amount > agent_state.max_per_tx
    /\ agent_state.daily_limit > 0 /\ last.amount > agent_state.daily_limit
    /\ agent_state.total_limit > 0 /\ last.amount > agent_state.total_limit
    /\ Len(last.log) = 1 /\ last.log[1].amount = last.amount

\* A successful withdraw_private from a frozen, expired private account.
C13_WitnessPrivate ==
    /\ exists /\ last.op = "withdraw_private" /\ last.err = "Ok"
    /\ agent_state.frozen
    /\ agent_state.expires_at > 0 /\ now >= agent_state.expires_at
    /\ last.amount > 0

\* The witness of the step's instruction is at least 44 bytes long and its 32
\* bytes at offset 12 are the account's stored commitment.
WitnessMatches ==
    /\ Len(last'.witness) >= 44
    /\ \A i \in 1..32 : last'.witness[12 + i] = agent_state.owner_commitment[i]

\* C14: in a private instruction the verifier program is invoked only if the
\* witness has at least 44 bytes and its bytes 12..43 equal the account's
\* stored commitment; with a shorter witness or another commitment the
\* instruction fails with an authorization error before any verifier call and
\* changes nothing.
C14_WitnessCheckedBeforeVerifier ==
    [][last'.op \in PrivateOps
          => /\ last'.cpi => (exists /\ WitnessMatches)
             /\ (exists /\ ~WitnessMatches)
                    => /\ last'.err \in AuthErrors \ {"ProofRejected"}
                       /\ ~last'.cpi
                       /\ NothingChanged]_vars

\* withdraw_private on a funded private account, with the right verifier
\* program and a proof the verifier would accept, whose witness carries a
\* commitment that differs from the stored one in its last byte only.
C14_Witness ==
    /\ exists /\ agent_state.owner = "None"
    /\ vault >= last.amount + PRIVATE_OPERATION_FEE
    /\ last.op = "withdraw_private" /\ last.verifier = ZK_VERIFIER_PROGRAM_ID
    /\ last.proof = "accepted" /\ last.witness = Witness(COMMITMENT_B)
    /\ agent_state.owner_commitment = COMMITMENT_A
    /\ last.err = "CommitmentMismatch" /\ ~last.cpi

\* The same with a 43-byte witness.
C14_WitnessShort ==
    /\ exists /\ agent_state.owner = "None"
    /\ vault >= last.amount + PRIVATE_OPERATION_FEE
    /\ last.op = "withdraw_private" /\ last.verifier = ZK_VERIFIER_PROGRAM_ID
    /\ last.proof = "accepted" /\ Len(last.witness) = 43
    /\ last.err = "InvalidProof" /\ ~last.cpi

\* C15: spend is authorized by the delegate's signature alone, in both modes
\* and without a proof: signed by the account's delegate it never fails with
\* an authorization error and succeeds whenever the limiter, the balance and
\* the ledger allow it, whether the account has an owner or a commitment;
\* signed by any other key, the owner's included, it fails and changes nothing.
C15_SpendByDelegateOnly ==
    [][(exists /\ last'.op = "spend")
          => /\ last'.signer # agent_state.delegate
                    => (last'.err = "ConstraintSeeds" /\ NothingChanged)
             /\ last'.signer = agent_state.delegate
                    => /\ last'.err \notin AuthErrors \cup {"ConstraintSeeds"}
                       /\ ~last'.cpi
             /\ (/\ SpendWithinLimits
                 /\ EffectiveDaily + last'.amount <= U64_MAX
                 /\ agent_state.total_spent + last'.amount <= U64_MAX
                 /\ last'.amount + SPEND_FEE_REIMBURSEMENT <= vault
                 /\ last'.fault = 0)
                    => last'.err = "Ok"]_vars

\* A successful spend by the delegate of a private account.
C15_Witness ==
    /\ exists /\ agent_state.owner = "None"
    /\ agent_state.owner_commitment = COMMITMENT_A
    /\ last.op = "spend" /\ last.err = "Ok" /\ last.signer = agent_state.delegate
    /\ last.amount > 0 /\ agent_state.total_spent = last.amount
    /\ last.proof = "None" /\ ~last.cpi

\* A spend signed by the owner of a funded, unlimited standard account.
C15_WitnessOwner ==
    /\ exists /\ agent_state.owner = "alice" /\ last.signer = "alice"
    /\ agent_state.delegate # "alice"
    /\ last.op = "spend" /\ last.err = "ConstraintSeeds"
    /\ vault >= last.amount + SPEND_FEE_REIMBURSEMENT
    /\ agent_state.max_per_tx = 0 /\ agent_state.daily_limit = 0
    /\ agent_state.total_limit = 0 /\ agent_state.expires_at = 0
    /\ ~agent_state.frozen

C16_WitnessReset ==
    /\ exists /\ last.op = "spend" /\ last.err = "ExceedsDailyLimit"
    /\ Day(now) > agent_state.last_day
    /\ agent_state.daily_spent > 0
    /\ last.amount > agent_state.daily_limit

\* A withdraw_private whose fee transfer went through and whose principal
\* transfer the ledger rejected.
C16_WitnessPrivileged ==
    /\ exists /\ last.op = "withdraw_private" /\ last.err = "TransferFailed"
    /\ last.fault = 2 /\ last.cpi
    /\ vault >= last.amount + PRIVATE_OPERATION_FEE

\* The state a sequential run of the instructions order[1], order[2], ...
\* leaves, starting from s, at clock t.
RECURSIVE Serial(_, _, _)
Serial(order, s, t) ==
    IF order = <<>> THEN s
    ELSE Serial(Tail(order),
                WriteBack(s, Dispatch(Submitted[Head(order).id], s, t)), t)

\* The sum of the principals of the executed spends that succeeded.
RECURSIVE Principals(_)
Principals(done) ==
    IF done = <<>> THEN 0
    ELSE Principals(Tail(done))
         + (IF Submitted[Head(done).id].op = "spend" /\ Head(done).err = "Ok"
            THEN Submitted[Head(done).id].amount ELSE 0)

\* The daily counter the first spend of the batch starts from.
BatchDaily ==
    IF Day(now) > batch.init.st.last_day THEN 0 ELSE batch.init.st.daily_spent

C18_ZeroCommitmentRejected ==
    [][/\ (~exists /\ last'.op = "create_cloaked_agent_private")
              => IF last'.commitment = ZERO_COMMITMENT
                 THEN last'.err = "InvalidCommitment" /\ NothingChanged
                 ELSE /\ last'.err = "Ok" /\ exists'
                      /\ agent_state'.owner = "None"
                      /\ agent_state'.owner_commitment = last'.commitment
       /\ (exists' /\ agent_state'.owner = "None")
              => agent_state'.owner_commitment # ZERO_COMMITMENT]_vars

\* A creation with the all-zero commitment, rejected, no account created.
C18_Witness ==
    /\ last.op = "create_cloaked_agent_private"
    /\ last.commitment = ZERO_COMMITMENT
    /\ last.err = "InvalidCommitment" /\ ~exists

\* A private account created with a commitment whose first 31 bytes are zero.
C18_WitnessLow ==
    /\ last.op = "create_cloaked_agent_private" /\ last.err = "Ok"
    /\ exists /\ agent_state.owner = "None"
    /\ agent_state.owner_commitment = COMMITMENT_LOW

\* The step is a spend signed by the account's delegate whose transfers the
\* ledger accepts.
SpendByDelegate ==
    /\ exists /\ last'.op = "spend" /\ last'.signer = agent_state.delegate
    /\ last'.fault = 0

\* The daily counter a spend at clock t starts from.
DailyAt(st, t) == IF Day(t) > st.last_day THEN 0 ELSE st.daily_spent

\* The reference decision procedure for spend, in its fixed order, over the
\* integers: the first violated check, or Ok.
RefSpend(st, t, amount, v) ==
    IF st.frozen THEN "AgentFrozen"
    ELSE IF st.expires_at > 0 /\ t >= st.expires_at THEN "AgentExpired"
    ELSE IF st.max_per_tx > 0 /\ amount > st.max_per_tx THEN "ExceedsPerTxLimit"
    ELSE IF st.daily_limit > 0 /\ DailyAt(st, t) + amount > st.daily_limit
         THEN "ExceedsDailyLimit"
    ELSE IF st.total_limit > 0 /\ st.total_spent + amount > st.total_limit
         THEN "ExceedsTotalLimit"
    ELSE IF v < amount + SPEND_FEE_REIMBURSEMENT THEN "InsufficientBalance"
    ELSE "Ok"

\* The same procedure with every sum overflow-checked where it is computed.
RefSpendChecked(st, t, amount, v) ==
    IF st.frozen THEN "AgentFrozen"
    ELSE IF st.expires_at > 0 /\ t >= st.expires_at THEN "AgentExpired"
    ELSE IF st.max_per_tx > 0 /\ amount > st.max_per_tx THEN "ExceedsPerTxLimit"
    ELSE IF st.daily_limit > 0 /\ DailyAt(st, t) + amount > U64_MAX THEN "Overflow"
    ELSE IF st.daily_limit > 0 /\ DailyAt(st, t) + amount > st.daily_limit
         THEN "ExceedsDailyLimit"
    ELSE IF st.total_limit > 0 /\ st.total_spent + amount > U64_MAX THEN "Overflow"
    ELSE IF st.total_limit > 0 /\ st.total_spent + amount > st.total_limit
         THEN "ExceedsTotalLimit"
    ELSE IF amount + SPEND_FEE_REIMBURSEMENT > U64_MAX THEN "Overflow"
    ELSE IF v < amount + SPEND_FEE_REIMBURSEMENT THEN "InsufficientBalance"
    ELSE IF DailyAt(st, t) + amount > U64_MAX THEN "Overflow"
    ELSE IF st.total_spent + amount > U64_MAX THEN "Overflow"
    ELSE "Ok"

\* C19 as stated: for every account state, clock value, amount and vault
\* balance the outcome of spend is that of the reference procedure: frozen,
\* expiry (now = expires_at rejected, expires_at = 0 never), per-transaction
\* limit, day rollover, daily limit, total limit, balance, first violation
\* reported.
C19_SpendDecisionOrder ==
    [][SpendByDelegate
          => last'.err = RefSpend(agent_state, now, last'.amount, vault)]_vars

\* C19 as amended: the outcome of spend is that of the reference procedure in
\* the same order, with each sum overflow-checked where it is computed: a
\* daily or total sum, or amount + fee, above the u64 maximum is reported as
\* Overflow at that step, and so is a counter increment above it after the
\* balance check.  On Ok both counters grow by the amount from the rolled-over
\* daily counter.  With max_per_tx = 100, daily_limit = 500, total_limit =
\* 1000, a spend of 1 on the day on which 500 were spent fails with
\* ExceedsDailyLimit.
C19_SpendDecisionChecked ==
    [][SpendByDelegate
          => /\ last'.err = RefSpendChecked(agent_state, now, last'.amount, vault)
             /\ last'.err = "Ok"
                    => /\ agent_state'.daily_spent
                              = DailyAt(agent_state, now) + last'.amount
                       /\ agent_state'.total_spent
                              = agent_state.total_spent + last'.amount
             /\ (/\ agent_state.max_per_tx = 100 /\ agent_state.daily_limit = 500
                 /\ agent_state.total_limit = 1000 /\ agent_state.expires_at = 0
                 /\ ~agent_state.frozen
                 /\ agent_state.daily_spent = 500 /\ Day(now) = agent_state.last_day
                 /\ last'.amount = 1)
                    => last'.err = "ExceedsDailyLimit"]_vars

\* Scenario A: after five successful spends of 100, the sixth instruction, a
\* spend of 1 on the same day, failed with ExceedsDailyLimit, the total at 500
\* of 1000.
C19_Witness ==
    /\ exists /\ steps = 6
    /\ agent_state.max_per_tx = 100 /\ agent_state.daily_limit = 500
    /\ agent_state.total_limit = 1000
    /\ agent_state.daily_spent = 500 /\ agent_state.total_spent = 500
    /\ vault = U64_MAX - 5 * (100 + SPEND_FEE_REIMBURSEMENT)
    /\ last.op = "spend" /\ last.amount = 1 /\ last.err = "ExceedsDailyLimit"

\* A spend at now = expires_at, rejected as expired.
C19_WitnessExpiry ==
    /\ exists /\ last.op = "spend" /\ last.err = "AgentExpired"
    /\ now = agent_state.expires_at /\ ~agent_state.frozen

\* One transfer out of the vault.
Xfer(to, amount) == [to |-> to, amount |-> amount]

\* Every authorization, limit and balance check of the step's instruction
\* passes.
ChecksPass ==
    /\ exists
    /\ \/ /\ last'.op = "spend" /\ last'.signer = agent_state.delegate
          /\ RefSpendChecked(agent_state, now, last'.amount, vault) = "Ok"
       \/ WithdrawAdmitted /\ last'.amount <= vault
       \/ /\ last'.op = "close_cloaked_agent" /\ agent_state.owner # "None"
          /\ last'.signer = agent_state.owner
       \/ /\ last'.op = "withdraw_private" /\ ProofAdmitted
          /\ last'.amount + PRIVATE_OPERATION_FEE <= vault
       \/ /\ last'.op \in PrivateOps \ {"withdraw_private"} /\ ProofAdmitted
          /\ PRIVATE_OPERATION_FEE <= vault

\* C20: a successful spend transfers the principal to the destination first
\* and SPEND_FEE_REIMBURSEMENT to the fee payer second; a successful
\* withdraw_private or close_cloaked_agent_private transfers
\* PRIVATE_OPERATION_FEE to the fee recipient first and the principal, or
\* the rest of the balance, to the destination second; and no instruction
\* issues a transfer unless all its authorization, limit and balance checks
\* pass.
C20_TransferOrder ==
    [][/\ (last'.op = "spend" /\ last'.err = "Ok")
              => last'.log = << Xfer(last'.destination, last'.amount),
                                Xfer(last'.fee_recipient, SPEND_FEE_REIMBURSEMENT) >>
       /\ (last'.op = "withdraw_private" /\ last'.err = "Ok")
              => last'.log = << Xfer(last'.fee_recipient, PRIVATE_OPERATION_FEE),
                                Xfer(last'.destination, last'.amount) >>
       /\ (last'.op = "close_cloaked_agent_private" /\ last'.err = "Ok")
              => last'.log
                   = << Xfer(last'.fee_recipient, PRIVATE_OPERATION_FEE) >>
                     \o (IF vault > PRIVATE_OPERATION_FEE
                         THEN << Xfer(last'.destination, vault - PRIVATE_OPERATION_FEE) >>
                         ELSE << >>)
       /\ last'.issued > 0 => ChecksPass
       /\ last'.err \notin {"Ok", "TransferFailed"} => last'.issued = 0]_vars

\* A successful withdraw_private: the fee went to the relayer first, the
\* principal to another account second.
C20_Witness ==
    /\ last.op = "withdraw_private" /\ last.err = "Ok"
    /\ last.fee_recipient = "relayer" /\ last.destination = "bob"
    /\ last.amount > 0 /\ last.amount # PRIVATE_OPERATION_FEE
    /\ last.log = << Xfer("relayer", PRIVATE_OPERATION_FEE), Xfer("bob", last.amount) >>

\* A successful spend: principal to the destination, then the reimbursement
\* to the fee payer.
C20_WitnessSpend ==
    /\ last.op = "spend" /\ last.err = "Ok" /\ last.amount > 0
    /\ last.log = << Xfer("bob", last.amount), Xfer("relayer", SPEND_FEE_REIMBURSEMENT) >>

\* A successful close_cloaked_agent_private with two distinct recipients.
C20_WitnessClose ==
    /\ last.op = "close_cloaked_agent_private" /\ last.err = "Ok"
    /\ Len(last.log) = 2 /\ last.log[1].to # last.log[2].to
    /\ last.log[1].amount = PRIVATE_OPERATION_FEE

\* What the vault must hold for the step's private instruction.
RequiredPrivate ==
    PRIVATE_OPERATION_FEE + (IF last'.op = "withdraw_private" THEN last'.amount ELSE 0)

\* The cheap checks that the code makes before the verifier call pass: the
\* account is private, the verifier program is the expected one, the witness
\* is long enough and carries the stored commitment.
LocalChecksPass ==
    /\ exists /\ agent_state.owner = "None"
    /\ last'.verifier = ZK_VERIFIER_PROGRAM_ID
    /\ WitnessMatches

Updated(opt, old) == IF opt = None THEN old ELSE opt[1]

\* C22: a successful update_constraints / update_constraints_private sets
\* exactly the supplied fields among max_per_tx, daily_limit, total_limit and
\* expires_at to the supplied values and leaves every other field of the
\* record as it was (the fields not supplied, frozen, daily_spent,
\* total_spent, last_day, delegate, owner, owner_commitment, created_at); a
\* call that supplies no field changes no field.
C22_UpdateFrame ==
    [][(exists /\ last'.op \in UpdateOps /\ last'.err = "Ok")
          => /\ exists'
             /\ agent_state'
                  = [agent_state EXCEPT
                       !.max_per_tx = Updated(last'.constraints[1], @),
                       !.daily_limit = Updated(last'.constraints[2], @),
                       !.total_limit = Updated(last'.constraints[3], @),
                       !.expires_at = Updated(last'.constraints[4], @)]
             /\ last'.constraints = <<None, None, None, None>>
                    => agent_state' = agent_state]_vars

\* A successful update of the daily limit alone on an account that has spent:
\* the other three constraints keep their creation values.
C22_Witness ==
    /\ exists /\ last.op \in UpdateOps /\ last.err = "Ok"
    /\ last.constraints = <<None, Some(30000), None, None>>
    /\ agent_state.daily_limit = 30000
    /\ agent_state.max_per_tx = 50000 /\ agent_state.total_limit = 90000
    /\ agent_state.expires_at = 86400
    /\ agent_state.total_spent > 0

\* A successful private update that supplies no field, on a frozen account.
C22_WitnessNone ==
    /\ exists /\ last.op = "update_constraints_private" /\ last.err = "Ok"
    /\ last.constraints = <<None, None, None, None>>
    /\ agent_state.frozen

\* Instructions that transfer out of the vault.
DebitOps ==
    { "spend", "withdraw", "withdraw_private", "close_cloaked_agent",
      "close_cloaked_agent_private", "freeze_private", "unfreeze_private",
      "update_constraints_private" }

\* The lamports that left the vault in the transfers of log.
RECURSIVE Debited(_)
Debited(log) ==
    IF log = <<>> THEN 0
    ELSE (IF Head(log).to = "vault" THEN 0 ELSE Head(log).amount) + Debited(Tail(log))

\* C23: on a living account daily_spent, total_spent and last_day change only
\* in a successful spend (deposit, withdraw, withdraw_private, the freezes and
\* the constraint updates leave them alone); the vault balance decreases only
\* in a successful spend, withdraw, withdraw_private, close or private
\* instruction paying its fee, by what its transfers moved, and never in a
\* deposit, a standard freeze / unfreeze / update or a failed instruction.
C23_OnlySpendCounts ==
    [][/\ (/\ exists /\ exists'
           /\ \/ agent_state'.daily_spent # agent_state.daily_spent
              \/ agent_state'.total_spent # agent_state.total_spent
              \/ agent_state'.last_day # agent_state.last_day)
              => (last'.op = "spend" /\ last'.err = "Ok")
       /\ vault' < vault
              => /\ last'.op \in DebitOps /\ last'.err = "Ok"
                 /\ vault - vault' = Debited(last'.log)
       /\ (last'.op \notin DebitOps \cup {"deposit"} \/ last'.err # "Ok")
              => vault' = vault
       /\ last'.op = "deposit" => vault' >= vault]_vars

\* A successful private constraint update after a spend: the fee left the
\* vault, the counters are those of the spend.
C23_Witness ==
    /\ exists /\ last.op = "update_constraints_private" /\ last.err = "Ok"
    /\ last.log = << Xfer("bob", PRIVATE_OPERATION_FEE) >>
    /\ agent_state.daily_spent > 0 /\ agent_state.total_spent > 0

\* A successful deposit on another day than that of the account's last spend.
C23_WitnessDeposit ==
    /\ exists /\ last.op = "deposit" /\ last.err = "Ok"
    /\ agent_state.daily_spent > 0 /\ Day(now) > agent_state.last_day

\* C24: freeze / unfreeze on a standard account signed by the owner succeeds,
\* sets frozen to true / false, changes no other field and moves no value;
\* signed by anyone else it fails with NotOwner and frozen stays as it was.
\* A successful freeze_private / unfreeze_private sets frozen to true / false,
\* changes no other field and transfers exactly PRIVATE_OPERATION_FEE from the
\* vault to the fee recipient; with an admitted proof, a vault that covers the
\* fee and a ledger that accepts the transfer it succeeds.
C24_FreezeUnfreeze ==
    [][/\ (exists /\ agent_state.owner # "None" /\ last'.op \in {"freeze", "unfreeze"})
              => IF last'.signer = agent_state.owner
                 THEN /\ last'.err = "Ok"
                      /\ agent_state'
                           = [agent_state EXCEPT !.frozen = (last'.op = "freeze")]
                      /\ exists' /\ vault' = vault /\ last'.issued = 0
                 ELSE last'.err = "NotOwner" /\ NothingChanged
       /\ (exists /\ last'.op \in {"freeze_private", "unfreeze_private"})
              => /\ last'.err = "Ok"
                     => /\ agent_state'
                             = [agent_state EXCEPT
                                  !.frozen = (last'.op = "freeze_private")]
                        /\ exists'
                        /\ last'.log
                             = << Xfer(last'.fee_recipient, PRIVATE_OPERATION_FEE) >>
                        /\ vault' = vault - Debited(last'.log)
                 /\ (ProofAdmitted /\ vault >= PRIVATE_OPERATION_FEE /\ last'.fault = 0)
                        => last'.err = "Ok"]_vars

\* A successful unfreeze_private that paid the fee to an account other than
\* the vault.
C24_Witness ==
    /\ exists /\ last.op = "unfreeze_private" /\ last.err = "Ok"
    /\ ~agent_state.frozen
    /\ last.fee_recipient = "bob"
    /\ last.log = << Xfer("bob", PRIVATE_OPERATION_FEE) >>

\* A freeze by another signer than the owner on an unfrozen standard account.
C24_WitnessNotOwner ==
    /\ exists /\ agent_state.owner = "alice" /\ last.signer = "bob"
    /\ last.op = "freeze" /\ last.err = "NotOwner" /\ ~agent_state.frozen

\* An unfreeze by the owner after a freeze, the vault funded.
C24_WitnessDirect ==
    /\ exists /\ agent_state.owner = "alice" /\ last.signer = "alice"
    /\ last.op = "unfreeze" /\ last.err = "Ok" /\ ~agent_state.frozen
    /\ vault > 0 /\ steps >= 4

\* floor(t / SECONDS_PER_DAY) for a signed t.
FloorDay(t) == t \div SECONDS_PER_DAY

CreateOps == {"create_cloaked_agent", "create_cloaked_agent_private"}

\* C25: the day index is floor(now / 86400) for every signed clock value,
\* negative ones included: a successful create leaves an unfrozen account with
\* both counters 0 and last_day = floor(now / 86400), and a successful spend
\* rolls over exactly when floor(now / 86400) > last_day, to that day.
C25_DayIndexIsFloor ==
    [][/\ (last'.op \in CreateOps /\ last'.err = "Ok")
              => /\ exists' /\ ~agent_state'.frozen
                 /\ agent_state'.daily_spent = 0 /\ agent_state'.total_spent = 0
                 /\ agent_state'.last_day = FloorDay(now)
       /\ (exists /\ last'.op = "spend" /\ last'.err = "Ok")
              => IF FloorDay(now) > agent_state.last_day
                 THEN /\ agent_state'.daily_spent = last'.amount
                      /\ agent_state'.last_day = FloorDay(now)
                 ELSE /\ agent_state'.daily_spent
                             = agent_state.daily_spent + last'.amount
                      /\ agent_state'.last_day = agent_state.last_day]_vars

\* The day index the code computes for the current clock.
CurrentDay == i64_div(now, SECONDS_PER_DAY)

\* C26: last_day of a living account never decreases.  A successful spend at
\* a clock whose day index is at most last_day leaves last_day as it was and
\* adds the amount to daily_spent without resetting it, and with a daily
\* limit set a spend by the delegate at such a clock that would take
\* daily_spent over the limit fails: a clock that steps backwards grants no
\* fresh daily allowance.
C26_LastDayMonotone ==
    [][/\ (exists /\ exists') => agent_state'.last_day >= agent_state.last_day
       /\ (exists /\ last'.op = "spend" /\ CurrentDay <= agent_state.last_day)
              => /\ last'.err = "Ok"
                     => /\ agent_state'.last_day = agent_state.last_day
                        /\ agent_state'.daily_spent
                             = agent_state.daily_spent + last'.amount
                 /\ (/\ agent_state.daily_limit > 0
                     /\ agent_state.daily_spent + last'.amount
                            > agent_state.daily_limit)
                        => last'.err # "Ok" /\ NothingChanged]_vars

\* A spend on an earlier day than last_day, within the daily limit on its
\* own, rejected for the spending of the later day.
C26_Witness ==
    /\ exists /\ last.op = "spend" /\ last.err = "ExceedsDailyLimit"
    /\ CurrentDay < agent_state.last_day
    /\ last.amount > 0 /\ last.amount <= agent_state.daily_limit
    /\ agent_state.daily_spent > 0

\* A successful spend on an earlier day than last_day: the counter went on
\* from the spending of the later day.
C26_WitnessAccumulates ==
    /\ exists /\ last.op = "spend" /\ last.err = "Ok"
    /\ CurrentDay < agent_state.last_day
    /\ last.amount > 0 /\ agent_state.daily_spent > last.amount

\* The step is a successful spend on a living account.
SpendOk == exists /\ last'.op = "spend" /\ last'.err = "Ok"

\* C27: total_spent is the sum of the amounts of the successful spends since
\* creation and daily_spent the sum of those since the last rollover: a
\* successful create starts both at 0, a successful spend adds exactly its
\* amount to total_spent and to the daily counter as rolled over, and no
\* other step on a living account changes either.  SPEND_FEE_REIMBURSEMENT is
\* not counted and not held against a limit: a spend by the delegate whose
\* amount alone passes the per-transaction, daily and total limits succeeds
\* when the vault holds amount + SPEND_FEE_REIMBURSEMENT.  A successful spend,
\* spend(0) included, with destination and fee payer other than the vault
\* takes exactly amount + SPEND_FEE_REIMBURSEMENT out of the vault.
C27_SpendAccounting ==
    [][/\ (last'.op \in CreateOps /\ last'.err = "Ok")
              => agent_state'.total_spent = 0 /\ agent_state'.daily_spent = 0
       /\ SpendOk
              => /\ exists'
                 /\ agent_state'.total_spent = agent_state.total_spent + last'.amount
                 /\ agent_state'.daily_spent
                        = DailyAt(agent_state, now) + last'.amount
                 /\ (last'.destination # "vault" /\ last'.fee_recipient # "vault")
                        => vault - vault' = last'.amount + SPEND_FEE_REIMBURSEMENT
       /\ (exists /\ exists' /\ ~SpendOk)
              => /\ agent_state'.total_spent = agent_state.total_spent
                 /\ agent_state'.daily_spent = agent_state.daily_spent
       /\ (/\ SpendByDelegate
           /\ RefSpendChecked(agent_state, now, last'.amount, vault) = "Ok")
              => last'.err = "Ok"]_vars

\* A successful spend(0) after an earlier spend: the vault paid the
\* reimbursement alone and the counters stayed.
C27_Witness ==
    /\ exists /\ last.op = "spend" /\ last.err = "Ok" /\ last.amount = 0
    /\ last.destination = "bob" /\ last.fee_recipient = "relayer"
    /\ last.log = << Xfer("bob", 0), Xfer("relayer", SPEND_FEE_REIMBURSEMENT) >>
    /\ agent_state.total_spent > 0

\* A successful spend that takes total_spent to the total limit exactly, in
\* two spends: the reimbursements on top are not counted.
C27_WitnessAtLimit ==
    /\ exists /\ last.op = "spend" /\ last.err = "Ok"
    /\ agent_state.total_limit > 0
    /\ agent_state.total_spent = agent_state.total_limit
    /\ last.amount > 0 /\ last.amount < agent_state.total_spent

\* A successful spend of exactly the per-transaction and the daily limit.
C27_WitnessDaily ==
    /\ exists /\ last.op = "spend" /\ last.err = "Ok"
    /\ last.amount = agent_state.max_per_tx
    /\ last.amount = agent_state.daily_limit /\ last.amount > 0
    /\ agent_state.daily_spent = agent_state.daily_limit

\* The private instructions that pay the fee and nothing else from a balance
\* check of their own.
FeeOps ==
    { "freeze_private", "unfreeze_private", "update_constraints_private",
      "close_cloaked_agent_private" }

\* C28: freeze_private, unfreeze_private, update_constraints_private and
\* close_cloaked_agent_private presented with a valid proof fail with
\* InsufficientBalanceForFee whenever the vault holds less than
\* PRIVATE_OPERATION_FEE, and leave frozen, the constraints, the record and
\* the vault as they were; so on a private account whose vault holds less
\* than the fee no freeze, unfreeze, constraint update or close, private or
\* direct, succeeds or changes anything.
C28_FeeRequired ==
    [][/\ (ProofAdmitted /\ last'.op \in FeeOps /\ vault < PRIVATE_OPERATION_FEE)
              => last'.err = "InsufficientBalanceForFee" /\ NothingChanged
       /\ (/\ exists /\ agent_state.owner = "None" /\ vault < PRIVATE_OPERATION_FEE
           /\ last'.op \in FeeOps \cup (DirectOps \ {"withdraw"}))
              => last'.err # "Ok" /\ NothingChanged]_vars

\* close_cloaked_agent_private with an accepted proof on a vault that holds
\* something, but less than the fee: rejected, the account alive.
C28_Witness ==
    /\ exists /\ agent_state.owner = "None"
    /\ vault > 0 /\ vault < PRIVATE_OPERATION_FEE
    /\ last.op = "close_cloaked_agent_private" /\ last.proof = "accepted"
    /\ last.err = "InsufficientBalanceForFee"

\* update_constraints_private with an accepted proof on an empty vault.
C28_WitnessUpdate ==
    /\ exists /\ agent_state.owner = "None" /\ vault = 0
    /\ last.op = "update_constraints_private" /\ last.proof = "accepted"
    /\ last.constraints # <<None, None, None, None>>
    /\ last.err = "InsufficientBalanceForFee"

\* unfreeze_private with an accepted proof on a frozen account whose vault
\* no longer covers the fee.
C28_WitnessFrozen ==
    /\ exists /\ agent_state.owner = "None" /\ agent_state.frozen
    /\ vault < PRIVATE_OPERATION_FEE
    /\ last.op = "unfreeze_private" /\ last.proof = "accepted"
    /\ last.err = "InsufficientBalanceForFee"

\* C29: a successful spend keeps the daily counter whether a daily limit is
\* set or not: it adds its amount to daily_spent, reset to 0 first when the
\* day index is past last_day, which it then records.  A successful
\* update_constraints leaves daily_spent and last_day as they were, so once
\* it has set a daily limit L > 0 the spending of the same day counts: a
\* spend succeeds only if daily_spent (0 after a rollover) + amount <= L,
\* and a spend by the delegate that passes the earlier checks and exceeds L
\* in this sum fails with ExceedsDailyLimit.
C29_UnlimitedSpendingCounts ==
    [][/\ SpendOk
              => /\ agent_state'.daily_spent
                        = DailyAt(agent_state, now) + last'.amount
                 /\ agent_state'.last_day
                        = IF CurrentDay > agent_state.last_day
                          THEN CurrentDay ELSE agent_state.last_day
                 /\ agent_state.daily_limit > 0
                        => DailyAt(agent_state, now) + last'.amount
                               <= agent_state.daily_limit
       /\ (exists /\ last'.op \in UpdateOps /\ last'.err = "Ok")
              => /\ agent_state'.daily_spent = agent_state.daily_spent
                 /\ agent_state'.last_day = agent_state.last_day
       /\ (/\ SpendAdmitted /\ agent_state.daily_limit > 0
           /\ DailyAt(agent_state, now) + last'.amount > agent_state.daily_limit
           /\ DailyAt(agent_state, now) + last'.amount <= U64_MAX)
              => last'.err = "ExceedsDailyLimit" /\ NothingChanged]_vars

\* After a spend of 40000 on an account without limits and an update that
\* set the daily limit to 30000 on the same day, a spend(0) is rejected:
\* the 40000 spent while unlimited count against the new limit.
C29_Witness ==
    /\ exists /\ agent_state.owner = "alice"
    /\ agent_state.daily_limit = 30000 /\ agent_state.daily_spent = 40000
    /\ agent_state.max_per_tx = 0 /\ agent_state.total_limit = 0
    /\ agent_state.expires_at = 0
    /\ CurrentDay = agent_state.last_day
    /\ last.op = "spend" /\ last.amount = 0 /\ last.err = "ExceedsDailyLimit"

\* A successful spend on an account whose daily limit is 0 and whose daily
\* counter had already grown: the counter kept growing.
C29_WitnessUnlimited ==
    /\ exists /\ agent_state.daily_limit = 0
    /\ last.op = "spend" /\ last.err = "Ok" /\ last.amount > 0
    /\ agent_state.daily_spent > last.amount
    /\ CurrentDay = agent_state.last_day

\* A successful spend on a later day on an account whose daily limit is 0:
\* the counter restarted from the amount.
C29_WitnessRollover ==
    /\ exists /\ agent_state.daily_limit = 0
    /\ last.op = "spend" /\ last.err = "Ok" /\ last.amount > 0
    /\ agent_state.daily_spent = last.amount
    /\ agent_state.total_spent > last.amount
    /\ agent_state.last_day > 0

====
